---- MODULE Spec2Model ----
(***************************************************************************)
(* Base-79 fractional keys (crate base79).                                 *)
(*                                                                         *)
(* src/src/lib.rs holds the public value type Base79 (a String of ASCII    *)
(* characters), its parser and the byte <-> digit conversions.  The digit  *)
(* arithmetic lives in the module `digits` (lib.rs:50-52), whose source is *)
(* not part of src/; it is modelled here from spec.md sections 3 and 4:    *)
(* the sentinels Below/Above, the digit-reading rule, the iterative        *)
(* between algorithm and the canonicalizer.                                *)
(*                                                                         *)
(* Three state machines share the variables:                               *)
(*   Spec      one library call on inputs drawn by Init                    *)
(*   SpecIter  the between iteration, one position per step               *)
(*   SpecList  the insertion loop of src/examples/print_random.rs          *)
(***************************************************************************)
EXTENDS Integers, Sequences, FiniteSets, TLC

VARIABLES call, checked, pc, res, it, v

vars == <<call, checked, pc, res, it, v>>

(***************************************************************************)
(* Bounds of the model.                                                    *)
(***************************************************************************)
\* longest digit sequence / string drawn as an input
MaxLen == 2
\* longest list the insertion loop grows
MaxKeys == 6
\* digits the input keys are built from
ModelDigits == {0, 1, 2, 19, 39, 78}
\* code points the parsed strings are built from: LF, space, '*', '+', 'R',
\* 'y', 'z', '~', DEL, U+0080 and U+D55C
ModelChars == {10, 32, 42, 43, 82, 121, 122, 126, 127, 128, 54620}

(***************************************************************************)
(* Digit domain (spec.md 4.1) and the alphabet offset (lib.rs:54).         *)
(***************************************************************************)
BASE == 79
MINIMUM == 43
L == -1
U == BASE

InDomain(d) == d \in 0..(BASE - 1)

\* all sequences over S with lo..hi elements
SeqsOf(S, lo, hi) == UNION {[1..k -> S] : k \in lo..hi}

RECURSIVE Pow(_, _)
Pow(b, n) == IF n = 0 THEN 1 ELSE b * Pow(b, n - 1)

(***************************************************************************)
(* Operands of the engine: a sentinel or a finite digit sequence.          *)
(***************************************************************************)
Below == [tag |-> "Below", d |-> <<>>]
Above == [tag |-> "Above", d |-> <<>>]
Finite(s) == [tag |-> "Finite", d |-> s]

Digits_zero == Below
Digits_one == Above
Digits_mid == <<(L + U) \div 2>>

\* the i-th digit of operand x, i counted from 0
read(x, i) ==
    IF x.tag = "Below" THEN L
    ELSE IF x.tag = "Above" THEN U
    ELSE IF i < Len(x.d) THEN x.d[i + 1]
    ELSE 0

\* from position i on, every digit read from x is the same
Exhausted(x, i) == x.tag # "Finite" \/ i >= Len(x.d)

(***************************************************************************)
(* Lexicographic order of two sequences of numbers, a proper prefix being  *)
(* smaller: the derived Ord of Base79 on its String (lib.rs:56-57).        *)
(***************************************************************************)
LexLess_shortlex(x, y) ==
    \/ Len(x) < Len(y)
    \/ /\ Len(x) = Len(y)
       /\ \E k \in 1..Len(y) :
            /\ \A j \in 1..(k - 1) : x[j] = y[j]
            /\ x[k] < y[k]

LexLess(x, y) ==
    \E k \in 1..Len(y) :
        /\ k - 1 <= Len(x)
        /\ \A j \in 1..(k - 1) : x[j] = y[j]
        /\ \/ k = Len(x) + 1
           \/ k <= Len(x) /\ x[k] < y[k]

\* the order Digits::avg puts its two operands in
OperandLess(x, y) ==
    IF x.tag = "Below" THEN y.tag # "Below"
    ELSE IF x.tag = "Above" THEN FALSE
    ELSE IF y.tag = "Below" THEN FALSE
    ELSE IF y.tag = "Above" THEN TRUE
    ELSE LexLess(x.d, y.d)

(***************************************************************************)
(* The between iteration (spec.md 4.2).  status is "run" while the loop    *)
(* is running, "ok" once it stopped, "panic" when the precondition is      *)
(* found violated (hi's digit below lo's), "diverge" when the loop can     *)
(* never stop.                                                             *)
(***************************************************************************)
NewIter(lo, hi) == [lo |-> lo, hi |-> hi, i |-> 0, out |-> <<>>, status |-> "run"]

Gap(st) == read(st.hi, st.i) - read(st.lo, st.i)

StepOf_stop3(st) ==
    LET a == read(st.lo, st.i)
        b == read(st.hi, st.i)
    IN  IF b - a >= 3
        THEN [st EXCEPT !.out = Append(@, (a + b) \div 2), !.status = "ok"]
        ELSE IF b - a >= 1
        THEN [st EXCEPT !.out = Append(@, a), !.hi = Above, !.i = @ + 1]
        ELSE IF b - a = 0
        THEN [st EXCEPT !.out = Append(@, a), !.i = @ + 1]
        ELSE [st EXCEPT !.status = "panic"]

StepOf_keephi(st) ==
    LET a == read(st.lo, st.i)
        b == read(st.hi, st.i)
    IN  IF b - a >= 2
        THEN [st EXCEPT !.out = Append(@, (a + b) \div 2), !.status = "ok"]
        ELSE IF b - a >= 0
        THEN [st EXCEPT !.out = Append(@, a), !.i = @ + 1]
        ELSE [st EXCEPT !.status = "panic"]

\* one position of the loop
StepOf(st) ==
    LET a == read(st.lo, st.i)
        b == read(st.hi, st.i)
    IN  IF b - a >= 2
        THEN [st EXCEPT !.out = Append(@, (a + b) \div 2), !.status = "ok"]
        ELSE IF b - a = 1
        THEN [st EXCEPT !.out = Append(@, a), !.hi = Above, !.i = @ + 1]
        ELSE IF b - a = 0
        THEN [st EXCEPT !.out = Append(@, a), !.i = @ + 1]
        ELSE [st EXCEPT !.status = "panic"]

\* both operands repeat one and the same digit from here on: gap 0 for ever
Stuck(st) ==
    /\ Gap(st) = 0
    /\ Exhausted(st.lo, st.i)
    /\ Exhausted(st.hi, st.i)

\* the loop run to its end
RECURSIVE Run(_)
Run(st) ==
    IF st.status # "run" THEN st
    ELSE IF Stuck(st) THEN [st EXCEPT !.status = "diverge"]
    ELSE Run(StepOf(st))

between(lo, hi) == Run(NewIter(lo, hi))

(***************************************************************************)
(* Canonicalizer (spec.md 4.3): trailing zero digits are dropped; a result *)
(* that is left empty (it represents exactly 0) or holds a digit outside   *)
(* [0, BASE-1] is rejected.                                                *)
(***************************************************************************)
RECURSIVE StripZeros(_)
StripZeros(d) ==
    IF d = <<>> THEN d
    ELSE IF d[Len(d)] = 0 THEN StripZeros(SubSeq(d, 1, Len(d) - 1))
    ELSE d

Canonicalize(e) ==
    IF e.status # "ok" THEN [status |-> e.status, d |-> <<>>, raw |-> e.out]
    ELSE LET t == StripZeros(e.out)
         IN  IF t = <<>> \/ \E k \in 1..Len(t) : ~InDomain(t[k])
             THEN [status |-> "panic", d |-> <<>>, raw |-> e.out]
             ELSE [status |-> "ok", d |-> t, raw |-> e.out]

Digits_avg_unordered(lhs, rhs) == Canonicalize(between(lhs, rhs))

\* Digits::avg: the operands in either order
Digits_avg(lhs, rhs) ==
    IF OperandLess(lhs, rhs)
    THEN Canonicalize(between(lhs, rhs))
    ELSE Canonicalize(between(rhs, lhs))

(***************************************************************************)
(* Facade (src/src/lib.rs).  A key is its text: a sequence of code points. *)
(* `chk` says whether the build checks integer overflow (a debug build     *)
(* panics on u8 overflow, a release build wraps).                          *)
(***************************************************************************)
NoRes == [status |-> "none", key |-> <<>>, raw |-> <<>>, digits |-> <<>>]
Failed(how, raw) == [status |-> how, key |-> <<>>, raw |-> raw, digits |-> <<>>]
Returned(key, raw) == [status |-> "ok", key |-> key, raw |-> raw, digits |-> <<>>]

is_ascii(c) == c <= 127
is_ascii_control(c) == c <= 31 \/ c = 127

from_str_any_ascii(s) ==
    IF s = <<>> THEN Failed("EmptyNotAllowed", <<>>)
    ELSE IF \E k \in 1..Len(s) : ~is_ascii(s[k])
    THEN Failed("InvalidChar", <<>>)
    ELSE Returned(s, <<>>)

\* impl FromStr for Base79
from_str(s) ==
    IF s = <<>> THEN Failed("EmptyNotAllowed", <<>>)
    ELSE IF \E k \in 1..Len(s) : ~is_ascii(s[k]) \/ is_ascii_control(s[k])
    THEN Failed("InvalidChar", <<>>)
    ELSE Returned(s, <<>>)

FromDigits_offbyone(d) == [k \in 1..Len(d) |-> (d[k] + MINIMUM - 1) % 256]

\* impl From<Digits> for Base79: x + MINIMUM on u8.  The digits handed over
\* are canonicalized ones, at most BASE-1, so the sum never overflows and
\* the bytes are ASCII.
FromDigits(d) == [k \in 1..Len(d) |-> (d[k] + MINIMUM) % 256]

\* impl From<&Base79> for Digits: x - MINIMUM on u8
ToDigits(key, chk) ==
    IF chk /\ \E k \in 1..Len(key) : key[k] < MINIMUM
    THEN [status |-> "panic", d |-> <<>>]
    ELSE [status |-> "ok",
          d |-> [k \in 1..Len(key) |-> (key[k] - MINIMUM) % 256]]

\* Digits::avg(..).into()
IntoKey(c) ==
    IF c.status = "ok" THEN Returned(FromDigits(c.d), c.raw)
    ELSE Failed(c.status, c.raw)

Base79_mid == Returned(FromDigits(Digits_mid), Digits_mid)

Base79_avg(lhs, rhs, chk) ==
    LET l == ToDigits(lhs, chk)
        r == ToDigits(rhs, chk)
    IN  IF l.status # "ok" \/ r.status # "ok" THEN Failed("panic", <<>>)
        ELSE IntoKey(Digits_avg(Finite(l.d), Finite(r.d)))

Base79_avg_with_zero(n, chk) ==
    LET r == ToDigits(n, chk)
    IN  IF r.status # "ok" THEN Failed("panic", <<>>)
        ELSE IntoKey(Digits_avg(Digits_zero, Finite(r.d)))

Base79_avg_with_one(n, chk) ==
    LET r == ToDigits(n, chk)
    IN  IF r.status # "ok" THEN Failed("panic", <<>>)
        ELSE IntoKey(Digits_avg(Digits_one, Finite(r.d)))

\* Base79::raw_digits
raw_digits(key, chk) == ToDigits(key, chk)

(***************************************************************************)
(* Inputs.                                                                 *)
(***************************************************************************)
DigitSeqs == SeqsOf(ModelDigits, 1, MaxLen)
Keys == {FromDigits(d) : d \in DigitSeqs}
Strings == SeqsOf(ModelChars, 0, MaxLen)

Call(op, lhs, rhs) == [op |-> op, lhs |-> lhs, rhs |-> rhs]

Calls ==
    {Call("mid", <<>>, <<>>)}
    \cup {Call("from_str", s, <<>>) : s \in Strings}
    \cup {Call("avg_with_zero", n, <<>>) : n \in Keys}
    \cup {Call("avg_with_one", n, <<>>) : n \in Keys}
    \cup {Call("avg", c[1], c[2]) : c \in Keys \X Keys}

NoCall == Call("none", <<>>, <<>>)
NoIter == NewIter(Below, Below)

(***************************************************************************)
(* Spec: one call of the library, then raw_digits of the key it returned.  *)
(***************************************************************************)
Init ==
    /\ call \in Calls
    /\ checked \in BOOLEAN
    /\ pc = "call"
    /\ res = NoRes
    /\ it = NoIter
    /\ v = <<>>

Mid ==
    /\ pc = "call" /\ call.op = "mid"
    /\ res' = Base79_mid
    /\ pc' = "returned"
    /\ UNCHANGED <<call, checked, it, v>>

FromStr ==
    /\ pc = "call" /\ call.op = "from_str"
    /\ res' = from_str(call.lhs)
    /\ pc' = "returned"
    /\ UNCHANGED <<call, checked, it, v>>

Avg ==
    /\ pc = "call" /\ call.op = "avg"
    /\ res' = Base79_avg(call.lhs, call.rhs, checked)
    /\ pc' = "returned"
    /\ UNCHANGED <<call, checked, it, v>>

AvgWithZero ==
    /\ pc = "call" /\ call.op = "avg_with_zero"
    /\ res' = Base79_avg_with_zero(call.lhs, checked)
    /\ pc' = "returned"
    /\ UNCHANGED <<call, checked, it, v>>

AvgWithOne ==
    /\ pc = "call" /\ call.op = "avg_with_one"
    /\ res' = Base79_avg_with_one(call.lhs, checked)
    /\ pc' = "returned"
    /\ UNCHANGED <<call, checked, it, v>>

RawDigits ==
    /\ pc = "returned" /\ res.status = "ok"
    /\ LET r == raw_digits(res.key, checked)
       IN  res' = [res EXCEPT !.status = r.status, !.digits = r.d]
    /\ pc' = "decoded"
    /\ UNCHANGED <<call, checked, it, v>>

Next == Mid \/ FromStr \/ Avg \/ AvgWithZero \/ AvgWithOne \/ RawDigits

Spec == Init /\ [][Next]_vars

(***************************************************************************)
(* Numeric value of a digit sequence: the numerator of the base-79         *)
(* fraction 0.d1 d2 ... over the common denominator Scale.  Sequences of   *)
(* up to MaxLen + 1 digits (the longest result) are covered.               *)
(***************************************************************************)
ValueDigits == MaxLen + 1
Scale == Pow(BASE, ValueDigits)

RECURSIVE NumFrom(_, _)
NumFrom(d, k) ==
    IF k > Len(d) THEN 0
    ELSE d[k] * Pow(BASE, ValueDigits - k) + NumFrom(d, k + 1)

Num(d) == NumFrom(d, 1)

\* value(Below) = 0, value(Above) = 1
OperandValue(x) ==
    IF x.tag = "Below" THEN 0
    ELSE IF x.tag = "Above" THEN Scale
    ELSE Num(x.d)

\* a canonical digit sequence: digits of the domain, no trailing zero
Canonical(d) ==
    /\ d # <<>>
    /\ \A k \in 1..Len(d) : InDomain(d[k])
    /\ d[Len(d)] # 0

CanonicalOperand(x) == x.tag # "Finite" \/ Canonical(x.d)

\* the digits a key of the alphabet stands for
DigitsOf(key) == ToDigits(key, FALSE).d

\* the first position at which the digits read from lo and hi differ
Differ(lo, hi) == \E k \in 0..(MaxLen - 1) : read(lo, k) # read(hi, k)

FirstDiff(lo, hi) ==
    CHOOSE k \in 0..(MaxLen - 1) :
        /\ read(lo, k) # read(hi, k)
        /\ \A j \in 0..(k - 1) : read(lo, j) = read(hi, j)

\* the operands of the current call, as Digits::avg orders them
CallLhs ==
    IF call.op = "avg_with_zero" THEN Digits_zero
    ELSE IF call.op = "avg_with_one" THEN Digits_one
    ELSE Finite(DigitsOf(call.lhs))

CallRhs ==
    IF call.op = "avg" THEN Finite(DigitsOf(call.rhs))
    ELSE Finite(DigitsOf(call.lhs))

CallLo == IF OperandLess(CallLhs, CallRhs) THEN CallLhs ELSE CallRhs
CallHi == IF OperandLess(CallLhs, CallRhs) THEN CallRhs ELSE CallLhs

IsAvgCall == call.op \in {"avg", "avg_with_zero", "avg_with_one"}

(***************************************************************************)
(* Claims checked under Spec.                                              *)
(***************************************************************************)

\* C1: for canonical keys lower < upper, avg(lower, upper) returns a key
\* strictly between them; avg_with_zero(n) returns r with 0 < value(r) and
\* r < n; avg_with_one(n) returns r with n < r and value(r) < 1; both under
\* the string order of the keys and under the value of their digits.
C1_Betweenness ==
    pc = "returned" =>
        LET l == DigitsOf(call.lhs)
            r == DigitsOf(call.rhs)
            m == DigitsOf(res.key)
        IN  /\ (call.op = "avg" /\ Canonical(l) /\ Canonical(r)
                    /\ LexLess(call.lhs, call.rhs))
                => /\ res.status = "ok"
                   /\ LexLess(call.lhs, res.key) /\ LexLess(res.key, call.rhs)
                   /\ Num(l) < Num(m) /\ Num(m) < Num(r)
            /\ (call.op = "avg_with_zero" /\ Canonical(l))
                => /\ res.status = "ok"
                   /\ LexLess(res.key, call.lhs)
                   /\ 0 < Num(m) /\ Num(m) < Num(l)
            /\ (call.op = "avg_with_one" /\ Canonical(l))
                => /\ res.status = "ok"
                   /\ LexLess(call.lhs, res.key)
                   /\ Num(l) < Num(m) /\ Num(m) < Scale

\* C2: when the operands first differ at a position where hi's digit b and
\* lo's digit a satisfy b - a >= 2, the engine returns the shared prefix
\* followed by the one digit (a + b) div 2; mid() is [39] = "R",
\* avg_with_zero("R") is [19] = ">", avg_with_one("R") is [59] = "f" and the
\* average of ">" and "R", in either order, is [29] = "H".
C2_SingleDigitMidpoint ==
    pc = "returned" =>
        /\ (IsAvgCall /\ Differ(CallLo, CallHi))
            => LET k == FirstDiff(CallLo, CallHi)
                   a == read(CallLo, k)
                   b == read(CallHi, k)
               IN  b - a >= 2
                   => /\ Len(res.raw) = k + 1
                      /\ \A j \in 0..(k - 1) : res.raw[j + 1] = read(CallLo, j)
                      /\ res.raw[k + 1] = (a + b) \div 2
        /\ call.op = "mid"
            => res.status = "ok" /\ res.key = <<82>> /\ res.raw = <<39>>
        /\ (call.op = "avg_with_zero" /\ call.lhs = <<82>>)
            => res.status = "ok" /\ res.key = <<62>> /\ res.raw = <<19>>
        /\ (call.op = "avg_with_one" /\ call.lhs = <<82>>)
            => res.status = "ok" /\ res.key = <<102>> /\ res.raw = <<59>>
        /\ (call.op = "avg" /\ {call.lhs, call.rhs} = {<<62>>, <<82>>})
            => res.status = "ok" /\ res.key = <<72>> /\ res.raw = <<29>>

\* a call whose operands share their first digit and differ by 2 or more at
\* the second has returned
C2_Witness ==
    /\ pc = "returned" /\ call.op = "avg"
    /\ Differ(CallLo, CallHi)
    /\ FirstDiff(CallLo, CallHi) = 1
    /\ read(CallHi, 1) - read(CallLo, 1) >= 2
    /\ Len(res.raw) = 2

\* C4 as stated: for all digit sequences x, y with digits in [0, 78], x is
\* lexicographically smaller than y (a proper prefix being smaller) if and
\* only if value(x) < value(y), and the keys' string order agrees.
C4_OrderEquivalence_AllSequences ==
    (pc = "returned" /\ call.op = "avg") =>
        LET x == DigitsOf(call.lhs)
            y == DigitsOf(call.rhs)
        IN  /\ LexLess(x, y) <=> Num(x) < Num(y)
            /\ LexLess(call.lhs, call.rhs) <=> Num(x) < Num(y)

\* C4 amended: for all canonical digit sequences x, y (digits in [0, 78],
\* last digit not 0), x is lexicographically smaller than y if and only if
\* value(x) < value(y), and the string order of their keys agrees.
C4_OrderEquivalence ==
    (pc = "returned" /\ call.op = "avg") =>
        LET x == DigitsOf(call.lhs)
            y == DigitsOf(call.rhs)
        IN  (Canonical(x) /\ Canonical(y))
            => /\ LexLess(x, y) <=> Num(x) < Num(y)
               /\ LexLess(call.lhs, call.rhs) <=> Num(x) < Num(y)

\* two canonical keys, the first a proper prefix of the second, are compared
C4_Witness ==
    /\ call.op = "avg" /\ pc = "returned"
    /\ Canonical(DigitsOf(call.lhs)) /\ Canonical(DigitsOf(call.rhs))
    /\ Len(call.lhs) < Len(call.rhs)
    /\ call.lhs = SubSeq(call.rhs, 1, Len(call.lhs))
    /\ LexLess(call.lhs, call.rhs)

\* C5: from_str returns EmptyNotAllowed for the empty string, InvalidChar
\* for a non-empty string with a non-ASCII or ASCII control character, and
\* otherwise a key whose text is the input; parsing "R" gives mid().
C5_ParsingOutcomes ==
    (pc = "returned" /\ call.op = "from_str") =>
        LET s == call.lhs
            bad == \E k \in 1..Len(s) : s[k] > 127 \/ s[k] < 32 \/ s[k] = 127
        IN  /\ s = <<>> => res.status = "EmptyNotAllowed"
            /\ (s # <<>> /\ bad) => res.status = "InvalidChar"
            /\ (s # <<>> /\ ~bad) => res.status = "ok" /\ res.key = s
            /\ s = <<82>> => res.status = "ok" /\ res.key = Base79_mid.key

\* a string of ASCII characters, one of them a control character, was
\* rejected
C5_Witness ==
    /\ pc = "returned" /\ call.op = "from_str"
    /\ \A k \in 1..Len(call.lhs) : call.lhs[k] <= 127
    /\ \E k \in 1..Len(call.lhs) : call.lhs[k] \in {10, 127}
    /\ res.status = "InvalidChar"

\* C6: for every string from_str accepts, raw_digits of the key succeeds
\* without underflow and yields only digits in [0, 78].
C6_ParsedDigitRange ==
    (pc = "decoded" /\ call.op = "from_str") =>
        /\ res.status = "ok"
        /\ \A k \in 1..Len(res.digits) : InDomain(res.digits[k])

FiniteOperands == {Finite(d) : d \in DigitSeqs}

IterCalls ==
    {Call("digits_avg", c[1], c[2]) :
        c \in ({Below, Above} \cup FiniteOperands) \X FiniteOperands}

\* a loop that can never stop is followed up to this position
MaxPos == MaxLen + 1

InitIter ==
    /\ call \in IterCalls
    /\ checked = FALSE
    /\ pc = "enter"
    /\ res = NoRes
    /\ it = NoIter
    /\ v = <<>>

Enter ==
    /\ pc = "enter"
    /\ it' = IF OperandLess(call.lhs, call.rhs)
             THEN NewIter(call.lhs, call.rhs)
             ELSE NewIter(call.rhs, call.lhs)
    /\ pc' = "loop"
    /\ UNCHANGED <<call, checked, res, v>>

StepStop ==
    /\ pc = "loop" /\ it.status = "run"
    /\ Gap(it) >= 2
    /\ it' = StepOf(it)
    /\ UNCHANGED <<call, checked, pc, res, v>>

StepGapOne ==
    /\ pc = "loop" /\ it.status = "run"
    /\ Gap(it) = 1
    /\ it' = StepOf(it)
    /\ UNCHANGED <<call, checked, pc, res, v>>

StepGapZero ==
    /\ pc = "loop" /\ it.status = "run"
    /\ Gap(it) = 0
    /\ it.i < MaxPos
    /\ it' = StepOf(it)
    /\ UNCHANGED <<call, checked, pc, res, v>>

NextIter == Enter \/ StepStop \/ StepGapOne \/ StepGapZero

SpecIter == InitIter /\ [][NextIter]_vars

\* the loop is a plain sequential computation: it always takes its next step
FairSpecIter == SpecIter /\ WF_vars(NextIter)

\* the operands as the loop was entered with them
EnteredLo == IF OperandLess(call.lhs, call.rhs) THEN call.lhs ELSE call.rhs
EnteredHi == IF OperandLess(call.lhs, call.rhs) THEN call.rhs ELSE call.lhs

\* the precondition of between
ValueOrdered == OperandValue(EnteredLo) < OperandValue(EnteredHi)

ValidPair ==
    /\ CanonicalOperand(EnteredLo)
    /\ CanonicalOperand(EnteredHi)
    /\ ValueOrdered

Stopped == pc = "loop" /\ it.status = "ok"

\* some digit sequence of exactly n digits has a value strictly between lo
\* and hi (numerators over Scale): the values of the n-digit sequences are
\* the multiples of W = BASE^(ValueDigits - n) below Scale, and the least
\* multiple above lo is (lo div W + 1) * W
SequenceBetween(n, lo, hi) ==
    LET W == Pow(BASE, ValueDigits - n)
    IN  (lo \div W + 1) * W < hi

\* the value of x cut off after position k
RECURSIVE CutValue(_, _)
CutValue(x, k) ==
    IF k < 0 THEN 0
    ELSE read(x, k) * Pow(BASE, ValueDigits - (k + 1)) + CutValue(x, k - 1)

(***************************************************************************)
(* Claims checked under SpecIter and FairSpecIter.                         *)
(***************************************************************************)

\* C3 as stated: for every valid pair lo < hi, no digit sequence with fewer
\* digits than the result has a value strictly between value(lo) and
\* value(hi).
C3_Shortest ==
    (Stopped /\ ValidPair) =>
        \A n \in 0..(Len(it.out) - 1) :
            ~SequenceBetween(n, OperandValue(EnteredLo), OperandValue(EnteredHi))

\* C3 amended: for every valid pair lo < hi, no digit sequence with fewer
\* digits than the result has a value strictly between value(lo) and the
\* value of hi cut off after the first position at which lo and hi differ.
C3_ShortestBelowCut ==
    (Stopped /\ ValidPair) =>
        LET k == FirstDiff(EnteredLo, EnteredHi)
        IN  \A n \in 0..(Len(it.out) - 1) :
                ~SequenceBetween(n, OperandValue(EnteredLo), CutValue(EnteredHi, k))

\* the loop stopped with two digits for operands one apart at the first
\* position, hi having more digits after it
C3_Witness ==
    /\ Stopped /\ ValidPair
    /\ EnteredLo.tag = "Finite" /\ EnteredHi.tag = "Finite"
    /\ read(EnteredHi, 0) - read(EnteredLo, 0) = 1
    /\ Len(EnteredHi.d) = 2
    /\ Len(it.out) = 2

\* C8: for every valid pair the digits returned by between are a canonical
\* sequence: every digit lies in [0, 78] and the last one is not 0, so the
\* value is neither 0 nor 1.
C8_CanonicalOutput ==
    (Stopped /\ ValidPair) =>
        /\ \A k \in 1..Len(it.out) : InDomain(it.out[k])
        /\ it.out[Len(it.out)] # 0
        /\ 0 < Num(it.out) /\ Num(it.out) < Scale

\* C9: for every pair with value(lo) < value(hi) the loop reaches its
\* stopping case, and the result has at most len(lo) + len(hi) + 1 digits.
C9_BoundedTermination ==
    /\ (pc = "enter" /\ ValueOrdered) ~> Stopped
    /\ []((Stopped /\ ValueOrdered)
            => Len(it.out) <= Len(EnteredLo.d) + Len(EnteredHi.d) + 1)

\* the loop stopped after going one position past the longer operand
C9_Witness ==
    /\ Stopped /\ ValueOrdered
    /\ Len(it.out) = MaxLen + 1
    /\ Len(EnteredLo.d) = MaxLen

(***************************************************************************)
(* SpecList: the loop of src/examples/print_random.rs, the random position *)
(* being any position.  A panic inside a library call ends the program.    *)
(***************************************************************************)
InsertAt(s, pos, x) == SubSeq(s, 1, pos) \o <<x>> \o SubSeq(s, pos + 1, Len(s))

InitList ==
    /\ call = NoCall
    /\ checked \in BOOLEAN
    /\ pc = "loop"
    /\ res = Base79_mid
    /\ it = NoIter
    /\ v = <<Base79_mid.key>>

\* one iteration of the loop with `r` the key computed for position `pos`
Inserted(pos, r) ==
    /\ res' = r
    /\ IF r.status = "ok"
       THEN v' = InsertAt(v, pos, r.key) /\ pc' = "loop"
       ELSE v' = v /\ pc' = "aborted"
    /\ UNCHANGED <<call, checked, it>>

InsertFront ==
    /\ pc = "loop" /\ Len(v) < MaxKeys
    /\ Inserted(0, Base79_avg_with_zero(v[1], checked))

InsertBack ==
    /\ pc = "loop" /\ Len(v) < MaxKeys
    /\ Inserted(Len(v), Base79_avg_with_one(v[Len(v)], checked))

InsertMiddle ==
    /\ pc = "loop" /\ Len(v) < MaxKeys
    /\ \E pos \in 1..(Len(v) - 1) :
          Inserted(pos, Base79_avg(v[pos], v[pos + 1], checked))

NextList == InsertFront \/ InsertBack \/ InsertMiddle

SpecList == InitList /\ [][NextList]_vars

\* C7: starting from [mid()], after any sequence of insertions every
\* operation has succeeded and the list is strictly increasing under string
\* order.
C7_SortedCollection ==
    /\ pc # "aborted"
    /\ \A k \in 1..(Len(v) - 1) : LexLess(v[k], v[k + 1])

====
